---- MODULE Spec2Model ----
(***************************************************************************)
(* SAFEnet: anonymous incident reporting and service coordination.         *)
(* The state is the relational store of src/backend.py (one sequence per   *)
(* table, the row id being the index) and the login session of every       *)
(* client.  Every action is one request handler of src/app.py, taken as a  *)
(* whole; what a handler answers is the operator <handler>_response, a     *)
(* function of the request and of the state the request finds.             *)
(***************************************************************************)
EXTENDS Integers, Sequences, FiniteSets, TLC

VARIABLES users, service_providers, reports, report_attachments,
          report_updates, verification_records, system_logs, session, requests

\* The store and the sessions.
vars == <<users, service_providers, reports, report_attachments,
          report_updates, verification_records, system_logs, session>>
\* With the requests in flight, which only the concurrent specification has.
all_vars == <<vars, requests>>

\* ---------------------------------------------------------------- bounds
\* The number of rows the requests of one behaviour insert, all tables together.
MaxInserts == 3

\* ------------------------------------------------------- values and inputs
\* A NULL integer column, an absent integer form value, the anonymous user.
None == 0
\* A NULL DateTime column, and the value datetime.utcnow() stamps.
NoTime == "None"
utcnow == "utcnow"

Clients == {"c1"}

ValidStatuses == {"Assigned", "In Progress", "Resolved", "Closed"}
ReportStatuses == {"Pending"} \cup ValidStatuses
\* What a client can send as status: the enum, a string outside it, nothing, JSON null.
NoStatus == "<absent>"
JsonNull == "<null>"
StatusInputs == ReportStatuses \cup {"Bogus", NoStatus, JsonNull}

\* secrets.token_urlsafe(24) draws from a huge set; two values keep a collision possible.
TrackingCodes == {"tcA", "tcB"}

\* Login forms: an empty field, each account's password, a wrong password.
LoginForms ==
    { <<"", "">>, <<"admin", "admin123">>, <<"admin", "provider123">>,
      <<"provider", "provider123">>, <<"newprov", "provider123">> }

\* ------------------------------------------------------------ pure helpers
Min(S) == CHOOSE x \in S : \A y \in S : x <= y

generate_password_hash(password) == <<"pbkdf2:sha256", password>>
check_password_hash(hash, password) == hash = generate_password_hash(password)
check_password(user, password) == check_password_hash(user.password_hash, password)

is_authenticated(c) == session[c] # None
current_user_id(c) == session[c]

\* datetime.strptime(s, '%Y-%m-%d') succeeds.
strptime_ok(s) == s \in {"2024-03-01"}
\* float(s) succeeds.
float_ok(s) == s \in {"9.07", "7.49"}
allowed_file(filename) == filename \in {"photo.png", "scan.pdf"}

\* The rows inserted since Init, which holds one organization (a user row comes with
\* its organization and an attachment row with its report: they are not counted).
Inserted ==
    Len(service_providers) - 1 + Len(reports) + Len(report_updates)
    + Len(verification_records) + Len(system_logs)
Room(n) == Inserted + n <= MaxInserts

\* ---------------------------------------------------------------- responses
Resp(kind, target, flash, code, rid) ==
    [kind |-> kind, target |-> target, flash |-> flash, code |-> code, report_id |-> rid]
Redirect(target, flash) == Resp("redirect", target, flash, "", None)
Render(template, flash) == Resp("render", template, flash, "", None)
Json(success, message) == Resp("json", IF success THEN "success" ELSE "failure", message, "", None)
NotFound == Resp("404", "404.html", "", "", None)
InternalError == Resp("500", "500.html", "", "", None)
LoginRequired == Redirect("login", "Please log in to access this page.")
\* No early return was taken: the handler goes on to its commit.
Pass == Resp("pass", "", "", "", None)

\* ---------------------------------------------------------------- log_event
\* The table after log_event (the entry is committed when the write succeeds, ok),
\* and whether an exception leaves log_event.
log_event_propagates(event_type, user_id, cur, ok) ==
    [logs |-> IF ok
              THEN Append(system_logs, [event_type |-> event_type,
                                        user_id |-> IF user_id # None THEN user_id ELSE cur])
              ELSE system_logs,
     raised |-> ~ok]

log_event(event_type, user_id, cur, ok) ==
    [logs |-> IF ok
              THEN Append(system_logs, [event_type |-> event_type,
                                        user_id |-> IF user_id # None THEN user_id ELSE cur])
              ELSE system_logs,
     raised |-> FALSE]

LogRows(ok) == IF ok THEN 1 ELSE 0

\* What the handler answers after log_event returned (or raised).
AfterLog(le, r) == IF le.raised THEN InternalError ELSE r

\* ---------------------------------------------------------------- requests in flight
\* A request between two of its statements: the handler, the statement it has reached,
\* its parameters, and what it read of the report it loaded.
NoForm == [org_name |-> "", category |-> "", address |-> "", phone |-> "", email |-> "",
           username |-> "", password |-> "", confirm_password |-> ""]
Idle == [handler |-> "idle", step |-> "", form |-> NoForm, report_id |-> None,
         provider_id |-> None, status |-> "", seen_status |-> "",
         seen_provider_id |-> None]
ConcurrentClients == {"c1", "c2"}

\* ---------------------------------------------------------------- Init
\* The store after init_db() and scripts/setup_users.py: the admin, the verified
\* organization 'Test Hospital' and its provider user; nobody is logged in.
Init ==
    /\ users = << [username |-> "admin", email |-> "admin@safenet.ng",
                   password_hash |-> generate_password_hash("admin123"),
                   role |-> "admin", organization_id |-> None,
                   is_active |-> TRUE, last_login |-> NoTime],
                  [username |-> "provider", email |-> "provider@test.com",
                   password_hash |-> generate_password_hash("provider123"),
                   role |-> "provider", organization_id |-> 1,
                   is_active |-> TRUE, last_login |-> NoTime] >>
    /\ service_providers = << [name |-> "Test Hospital", category |-> "Medical",
                               is_verified |-> TRUE, verification_date |-> NoTime] >>
    /\ reports = << >>
    /\ report_attachments = << >>
    /\ report_updates = << >>
    /\ verification_records = << >>
    /\ system_logs = << >>
    /\ session = [c \in Clients |-> None]
    /\ requests = [c \in ConcurrentClients |-> Idle]

\* ---------------------------------------------------------------- login
first_user(username, role) ==
    LET S == {i \in DOMAIN users : users[i].username = username /\ users[i].role = role}
    IN IF S = {} THEN None ELSE Min(S)

credentials_ok(username, password, role) ==
    LET u == first_user(username, role)
    IN u # None /\ users[u].is_active /\ check_password(users[u], password)

login_checks(c, username, password, template) ==
    IF is_authenticated(c) THEN Redirect("dashboard", "")
    ELSE IF username = "" \/ password = ""
    THEN Render(template, "Please provide both username and password.")
    ELSE Pass

role_login_response(c, username, password, ok, role, template, event, failed_event, flash) ==
    IF login_checks(c, username, password, template) # Pass
    THEN login_checks(c, username, password, template)
    ELSE IF credentials_ok(username, password, role)
    THEN AfterLog(log_event(event, first_user(username, role),
                            first_user(username, role), ok),
                  Redirect("dashboard", ""))
    ELSE AfterLog(log_event(failed_event, None, None, ok), Render(template, flash))

role_login(c, username, password, ok, role, event, failed_event) ==
    IF login_checks(c, username, password, "") # Pass THEN UNCHANGED vars
    ELSE IF credentials_ok(username, password, role)
    THEN LET u == first_user(username, role) IN
         /\ Room(LogRows(ok))
         /\ session' = [session EXCEPT ![c] = u]
         /\ users' = [users EXCEPT ![u].last_login = utcnow]
         /\ system_logs' = log_event(event, u, u, ok).logs
         /\ UNCHANGED <<service_providers, reports, report_attachments,
                        report_updates, verification_records>>
    ELSE /\ Room(LogRows(ok))
         /\ system_logs' = log_event(failed_event, None, None, ok).logs
         /\ UNCHANGED <<users, service_providers, reports, report_attachments,
                        report_updates, verification_records, session>>

admin_login_response(c, username, password, ok) ==
    role_login_response(c, username, password, ok, "admin", "admin_login.html",
                        "admin_login", "failed_admin_login", "Invalid admin credentials.")

admin_login(c, username, password, ok) ==
    role_login(c, username, password, ok, "admin", "admin_login", "failed_admin_login")

provider_login_response(c, username, password, ok) ==
    role_login_response(c, username, password, ok, "provider", "provider_login.html",
                        "provider_login", "failed_provider_login",
                        "Invalid provider credentials.")

provider_login(c, username, password, ok) ==
    role_login(c, username, password, ok, "provider", "provider_login",
               "failed_provider_login")

logout_response(c, ok) ==
    IF ~is_authenticated(c) THEN LoginRequired
    ELSE AfterLog(log_event("user_logout", None, current_user_id(c), ok),
                  Redirect("index", "You have been logged out successfully."))

logout(c, ok) ==
    IF ~is_authenticated(c) THEN UNCHANGED vars
    ELSE LET le == log_event("user_logout", None, current_user_id(c), ok) IN
         /\ Room(LogRows(ok))
         /\ system_logs' = le.logs
         /\ session' = IF le.raised THEN session ELSE [session EXCEPT ![c] = None]
         /\ UNCHANGED <<users, service_providers, reports, report_attachments,
                        report_updates, verification_records>>

\* ---------------------------------------------------------------- register_provider
BaseRegistration ==
    [org_name |-> "New Org", category |-> "NGO", address |-> "1 Road", phone |-> "0800",
     email |-> "new@test.com", username |-> "newprov",
     password |-> "provider123", confirm_password |-> "provider123"]

RegistrationForms ==
    { BaseRegistration,
      [BaseRegistration EXCEPT !.phone = ""],
      [BaseRegistration EXCEPT !.confirm_password = "provider124"],
      [BaseRegistration EXCEPT !.password = "short", !.confirm_password = "short"],
      [BaseRegistration EXCEPT !.username = "provider"],
      [BaseRegistration EXCEPT !.email = "provider@test.com"] }

\* The unique constraints dropped from the users table.
users_unconstrained(rows) == TRUE

\* unique=True on users.username and users.email.
users_unique(rows) ==
    \A i, j \in DOMAIN rows :
        i # j => rows[i].username # rows[j].username /\ rows[i].email # rows[j].email

new_user(f) ==
    [username |-> f.username, email |-> f.email,
     password_hash |-> generate_password_hash(f.password),
     role |-> "provider", organization_id |-> Len(service_providers) + 1,
     is_active |-> TRUE, last_login |-> NoTime]

register_provider_checks(f) ==
    IF \E v \in {f.org_name, f.category, f.address, f.phone, f.email, f.username, f.password} :
          v = ""
    THEN Render("register_provider.html", "Please fill in all required fields.")
    ELSE IF f.password # f.confirm_password
    THEN Render("register_provider.html", "Passwords do not match.")
    ELSE IF Len(f.password) < 8
    THEN Render("register_provider.html", "Password must be at least 8 characters long.")
    ELSE IF \E i \in DOMAIN users : users[i].username = f.username
    THEN Render("register_provider.html", "Username already exists.")
    ELSE IF \E i \in DOMAIN users : users[i].email = f.email
    THEN Render("register_provider.html", "Email already registered.")
    ELSE IF ~users_unique(Append(users, new_user(f)))
    THEN Render("register_provider.html",
                "An error occurred during registration. Please try again.")
    ELSE Pass

register_provider_response(c, f, ok) ==
    IF register_provider_checks(f) # Pass THEN register_provider_checks(f)
    ELSE AfterLog(log_event("provider_registration", None, current_user_id(c), ok),
                  Redirect("login", "Registration submitted successfully!"))

register_provider(c, f, ok) ==
    IF register_provider_checks(f) # Pass THEN UNCHANGED vars
    ELSE /\ Room(1 + LogRows(ok))
         /\ service_providers' =
               Append(service_providers,
                      [name |-> f.org_name, category |-> f.category,
                       is_verified |-> FALSE, verification_date |-> NoTime])
         /\ users' = Append(users, new_user(f))
         /\ system_logs' =
               log_event("provider_registration", None, current_user_id(c), ok).logs
         /\ UNCHANGED <<reports, report_attachments, report_updates,
                        verification_records, session>>

\* ---------------------------------------------------------------- report
BaseReport ==
    [category |-> "Assault", description |-> "text", location |-> "Lagos",
     incident_date |-> "2024-03-01", latitude |-> "", longitude |-> "",
     attachments |-> << >>]

ReportForms ==
    { BaseReport,
      [BaseReport EXCEPT !.category = ""],
      [BaseReport EXCEPT !.description = ""],
      [BaseReport EXCEPT !.location = ""],
      [BaseReport EXCEPT !.incident_date = ""],
      [BaseReport EXCEPT !.incident_date = "01/03/2024"],
      [BaseReport EXCEPT !.latitude = "abc"],
      [BaseReport EXCEPT !.latitude = "9.07", !.longitude = "7.49",
                         !.attachments = <<"photo.png", "tool.exe">>] }

tracking_code_unconstrained(code) == TRUE

\* unique=True on reports.tracking_code.
tracking_code_unique(code) == \A i \in DOMAIN reports : reports[i].tracking_code # code

\* datetime.strptime left out of the validation.
report_checks_date_unparsed(f, code) ==
    IF \E v \in {f.category, f.description, f.location, f.incident_date} : v = ""
    THEN Render("report.html", "Please fill in all required fields.")
    ELSE IF \E v \in {f.latitude, f.longitude} : v # "" /\ ~float_ok(v)
    THEN Render("report.html", "Invalid date format.")
    ELSE IF ~tracking_code_unique(code)
    THEN Render("report.html",
                "An error occurred while submitting your report. Please try again.")
    ELSE Pass

\* code is the value secrets.token_urlsafe(24) returns in Report.__init__.
report_checks(f, code) ==
    IF \E v \in {f.category, f.description, f.location, f.incident_date} : v = ""
    THEN Render("report.html", "Please fill in all required fields.")
    ELSE IF ~strptime_ok(f.incident_date)
    THEN Render("report.html", "Invalid date format.")
    ELSE IF \E v \in {f.latitude, f.longitude} : v # "" /\ ~float_ok(v)
    THEN Render("report.html", "Invalid date format.")
    ELSE IF ~tracking_code_unique(code)
    THEN Render("report.html",
                "An error occurred while submitting your report. Please try again.")
    ELSE Pass

report_response(c, f, code, ok) ==
    IF report_checks(f, code) # Pass THEN report_checks(f, code)
    ELSE AfterLog(log_event("report_submitted", None, current_user_id(c), ok),
                  Resp("redirect", "track_report", "Report submitted successfully!",
                       code, None))

report(c, f, code, ok) ==
    IF report_checks(f, code) # Pass THEN UNCHANGED vars
    ELSE LET files == SelectSeq(f.attachments, allowed_file) IN
         /\ Room(1 + LogRows(ok))
         /\ reports' =
               Append(reports,
                      [tracking_code |-> code, category |-> f.category,
                       incident_date |-> f.incident_date, latitude |-> f.latitude,
                       longitude |-> f.longitude, status |-> "Pending",
                       assigned_provider_id |-> None, assigned_at |-> NoTime,
                       resolved_at |-> NoTime])
         /\ report_attachments' = report_attachments \o
               [k \in 1..Len(files) |->
                   [report_id |-> Len(reports) + 1, original_filename |-> files[k]]]
         /\ system_logs' = log_event("report_submitted", None, current_user_id(c), ok).logs
         /\ UNCHANGED <<users, service_providers, report_updates,
                        verification_records, session>>

\* ---------------------------------------------------------------- track_report
first_report(code) ==
    LET S == {i \in DOMAIN reports : reports[i].tracking_code = code}
    IN IF S = {} THEN None ELSE Min(S)

track_report_response(code) ==
    IF first_report(code) = None THEN NotFound
    ELSE Resp("render", "track_report.html", "",
              reports[first_report(code)].tracking_code, first_report(code))

track_report(code) == UNCHANGED vars

\* ---------------------------------------------------------------- directory
\* The category query parameter: absent, or a category.
CategoryFilters == {"", "Medical", "NGO"}

\* filter_by(is_verified=True) left out.
directory_response_unfiltered(category_filter) ==
    [kind |-> "render", target |-> "directory.html",
     providers |-> {p \in DOMAIN service_providers :
                       category_filter # ""
                       => service_providers[p].category = category_filter},
     categories |-> {service_providers[p].category : p \in DOMAIN service_providers},
     selected_category |-> category_filter]

\* The ids of the rows the queries return (their order, by rating, is left out).
directory_response(category_filter) ==
    [kind |-> "render", target |-> "directory.html",
     providers |-> {p \in DOMAIN service_providers :
                       /\ service_providers[p].is_verified
                       /\ category_filter # ""
                          => service_providers[p].category = category_filter},
     categories |-> {service_providers[p].category :
                       p \in {q \in DOMAIN service_providers :
                                 service_providers[q].is_verified}},
     selected_category |-> category_filter]

directory(category_filter) == UNCHANGED vars

\* ---------------------------------------------------------------- verify_provider
\* The role check left out.
verify_provider_checks_any_role(c, provider_id, action) ==
    IF ~is_authenticated(c) THEN LoginRequired
    ELSE IF provider_id \notin DOMAIN service_providers THEN NotFound
    ELSE IF action \notin {"approve", "reject"} THEN Redirect("dashboard", "Invalid action.")
    ELSE Pass

verify_provider_checks(c, provider_id, action) ==
    IF ~is_authenticated(c) THEN LoginRequired
    ELSE IF users[current_user_id(c)].role # "admin"
    THEN Redirect("dashboard", "Unauthorized access.")
    ELSE IF provider_id \notin DOMAIN service_providers THEN NotFound
    ELSE IF action \notin {"approve", "reject"} THEN Redirect("dashboard", "Invalid action.")
    ELSE Pass

verify_provider_response(c, provider_id, action, ok) ==
    IF verify_provider_checks(c, provider_id, action) # Pass
    THEN verify_provider_checks(c, provider_id, action)
    ELSE AfterLog(log_event("provider_verification", current_user_id(c), current_user_id(c), ok),
                  Redirect("dashboard",
                           IF action = "approve" THEN "has been verified successfully."
                                                 ELSE "verification has been rejected."))

\* db.session.add(verification) left out.
verify_provider_record_forgotten(c, provider_id, action, ok) ==
    IF verify_provider_checks(c, provider_id, action) # Pass THEN UNCHANGED vars
    ELSE /\ Room(1 + LogRows(ok))
         /\ service_providers' =
               IF action = "approve"
               THEN [service_providers EXCEPT ![provider_id].is_verified = TRUE,
                                              ![provider_id].verification_date = utcnow]
               ELSE service_providers
         /\ system_logs' =
               log_event("provider_verification", current_user_id(c), current_user_id(c), ok).logs
         /\ UNCHANGED <<users, reports, report_attachments, report_updates,
                        verification_records, session>>

verify_provider(c, provider_id, action, ok) ==
    IF verify_provider_checks(c, provider_id, action) # Pass THEN UNCHANGED vars
    ELSE /\ Room(1 + LogRows(ok))
         /\ service_providers' =
               IF action = "approve"
               THEN [service_providers EXCEPT ![provider_id].is_verified = TRUE,
                                              ![provider_id].verification_date = utcnow]
               ELSE service_providers
         /\ verification_records' =
               Append(verification_records,
                      [provider_id |-> provider_id,
                       verified_by_user_id |-> current_user_id(c),
                       verification_status |->
                           IF action = "approve" THEN "Approved" ELSE "Rejected"])
         /\ system_logs' =
               log_event("provider_verification", current_user_id(c), current_user_id(c), ok).logs
         /\ UNCHANGED <<users, reports, report_attachments, report_updates, session>>

\* ---------------------------------------------------------------- report updates
ReportUpdate(report_id, status, user_id) ==
    [report_id |-> report_id, status |-> status, created_by_user_id |-> user_id]

add_update_forgotten(report_id, status, user_id) == report_updates

\* db.session.add(update): the ReportUpdate committed with the status change.
add_update(report_id, status, user_id) ==
    Append(report_updates, ReportUpdate(report_id, status, user_id))

\* ---------------------------------------------------------------- assign_report
provider_unchecked(provider_id) == TRUE

provider_is_verified(provider_id) == service_providers[provider_id].is_verified

assign_report_checks(c, report_id, provider_id) ==
    IF ~is_authenticated(c) THEN LoginRequired
    ELSE IF users[current_user_id(c)].role # "admin"
    THEN Redirect("dashboard", "Unauthorized access.")
    ELSE IF report_id \notin DOMAIN reports THEN NotFound
    ELSE IF provider_id = None
    THEN Redirect("dashboard", "Please select a service provider.")
    ELSE IF provider_id \notin DOMAIN service_providers THEN NotFound
    ELSE IF ~provider_is_verified(provider_id)
    THEN Redirect("dashboard", "Cannot assign to unverified provider.")
    ELSE Pass

assign_report_response(c, report_id, provider_id, ok) ==
    IF assign_report_checks(c, report_id, provider_id) # Pass
    THEN assign_report_checks(c, report_id, provider_id)
    ELSE AfterLog(log_event("report_assigned", current_user_id(c), current_user_id(c), ok),
                  Redirect("dashboard", "Report assigned successfully."))

\* The verification check moved behind the commit.
assign_report_checks_late(c, report_id, provider_id, ok) ==
    IF assign_report_checks(c, report_id, provider_id)
          \notin {Pass, Redirect("dashboard", "Cannot assign to unverified provider.")}
    THEN UNCHANGED vars
    ELSE /\ Room(1 + LogRows(ok))
         /\ reports' = [reports EXCEPT ![report_id].assigned_provider_id = provider_id,
                                       ![report_id].assigned_at = utcnow,
                                       ![report_id].status = "Assigned"]
         /\ report_updates' = add_update(report_id, "Assigned", current_user_id(c))
         /\ system_logs' =
               log_event("report_assigned", current_user_id(c), current_user_id(c), ok).logs
         /\ UNCHANGED <<users, service_providers, report_attachments,
                        verification_records, session>>

assign_report(c, report_id, provider_id, ok) ==
    IF assign_report_checks(c, report_id, provider_id) # Pass THEN UNCHANGED vars
    ELSE /\ Room(1 + LogRows(ok))
         /\ reports' = [reports EXCEPT ![report_id].assigned_provider_id = provider_id,
                                       ![report_id].assigned_at = utcnow,
                                       ![report_id].status = "Assigned"]
         /\ report_updates' = add_update(report_id, "Assigned", current_user_id(c))
         /\ system_logs' =
               log_event("report_assigned", current_user_id(c), current_user_id(c), ok).logs
         /\ UNCHANGED <<users, service_providers, report_attachments,
                        verification_records, session>>

\* ---------------------------------------------------------------- update_report
owner_unchecked(user_id, report_id) == TRUE

\* not (report.assigned_provider_id != current_user.organization_id)
owns_report(user_id, report_id) ==
    reports[report_id].assigned_provider_id = users[user_id].organization_id

update_report_checks(c, report_id, new_status) ==
    IF ~is_authenticated(c) THEN LoginRequired
    ELSE IF users[current_user_id(c)].role # "provider"
    THEN Redirect("dashboard", "Unauthorized access.")
    ELSE IF report_id \notin DOMAIN reports THEN NotFound
    ELSE IF ~owns_report(current_user_id(c), report_id)
    THEN Redirect("dashboard", "You do not have permission to update this report.")
    ELSE IF new_status \notin ValidStatuses THEN Redirect("dashboard", "Invalid status.")
    ELSE Pass

update_report_response(c, report_id, new_status, ok) ==
    IF update_report_checks(c, report_id, new_status) # Pass
    THEN update_report_checks(c, report_id, new_status)
    ELSE AfterLog(log_event("report_updated", current_user_id(c), current_user_id(c), ok),
                  Redirect("dashboard", "Report updated successfully."))

update_report(c, report_id, new_status, ok) ==
    IF update_report_checks(c, report_id, new_status) # Pass THEN UNCHANGED vars
    ELSE /\ Room(1 + LogRows(ok))
         /\ reports' = [reports EXCEPT
                          ![report_id].status = new_status,
                          ![report_id].resolved_at =
                              IF new_status = "Resolved" THEN utcnow ELSE @]
         /\ report_updates' = add_update(report_id, new_status, current_user_id(c))
         /\ system_logs' =
               log_event("report_updated", current_user_id(c), current_user_id(c), ok).logs
         /\ UNCHANGED <<users, service_providers, report_attachments,
                        verification_records, session>>

\* ---------------------------------------------------------------- update_case
\* A NULL status violates nullable=False at the commit: the 500 handler rolls back.
update_case_checks(c, report_id, new_status) ==
    IF ~is_authenticated(c) THEN LoginRequired
    ELSE IF new_status = NoStatus THEN Json(FALSE, "Invalid data")
    ELSE IF report_id \notin DOMAIN reports THEN NotFound
    ELSE IF ~owns_report(current_user_id(c), report_id) THEN Json(FALSE, "Unauthorized")
    ELSE IF new_status = JsonNull THEN InternalError
    ELSE Pass

update_case_response(c, report_id, new_status) ==
    IF update_case_checks(c, report_id, new_status) # Pass
    THEN update_case_checks(c, report_id, new_status)
    ELSE Json(TRUE, "")

\* report.resolved_at = datetime.utcnow() left out.
update_case_unstamped(c, report_id, new_status) ==
    IF update_case_checks(c, report_id, new_status) # Pass THEN UNCHANGED vars
    ELSE /\ Room(1)
         /\ reports' = [reports EXCEPT ![report_id].status = new_status]
         /\ report_updates' = add_update(report_id, new_status, current_user_id(c))
         /\ UNCHANGED <<users, service_providers, report_attachments,
                        verification_records, system_logs, session>>

update_case(c, report_id, new_status) ==
    IF update_case_checks(c, report_id, new_status) # Pass THEN UNCHANGED vars
    ELSE /\ Room(1)
         /\ reports' = [reports EXCEPT
                          ![report_id].status = new_status,
                          ![report_id].resolved_at =
                              IF new_status = "Resolved" THEN utcnow ELSE @]
         /\ report_updates' = add_update(report_id, new_status, current_user_id(c))
         /\ UNCHANGED <<users, service_providers, report_attachments,
                        verification_records, system_logs, session>>

\* ---------------------------------------------------------------- report_details
report_details_response(c, report_id) ==
    IF ~is_authenticated(c) THEN LoginRequired
    ELSE IF report_id \notin DOMAIN reports THEN NotFound
    ELSE IF users[current_user_id(c)].role = "provider"
            /\ ~owns_report(current_user_id(c), report_id)
    THEN Redirect("dashboard", "Unauthorized access.")
    ELSE IF users[current_user_id(c)].role \notin {"provider", "admin"}
    THEN Redirect("dashboard", "Unauthorized access.")
    ELSE Resp("render", "report_details.html", "", reports[report_id].tracking_code, report_id)

report_details(c, report_id) == UNCHANGED vars

\* ---------------------------------------------------------------- Next
\* Request parameters: ids of rows that exist, one id of a row that does not, and
\* (for the provider_id form field) the absent value.
ReportIds == 1..(Len(reports) + 1)
ProviderIds == 0..(Len(service_providers) + 1)
VerifyActions == {"approve", "reject", "delete"}

Next ==
    \/ \E c \in Clients, f \in LoginForms, ok \in BOOLEAN :
          admin_login(c, f[1], f[2], ok) /\ UNCHANGED requests
    \/ \E c \in Clients, f \in LoginForms, ok \in BOOLEAN :
          provider_login(c, f[1], f[2], ok) /\ UNCHANGED requests
    \/ \E c \in Clients, ok \in BOOLEAN : logout(c, ok) /\ UNCHANGED requests
    \/ \E c \in Clients, f \in RegistrationForms, ok \in BOOLEAN :
          register_provider(c, f, ok) /\ UNCHANGED requests
    \/ \E c \in Clients, f \in ReportForms, code \in TrackingCodes, ok \in BOOLEAN :
          report(c, f, code, ok) /\ UNCHANGED requests
    \/ \E code \in TrackingCodes : track_report(code) /\ UNCHANGED requests
    \/ \E cat \in CategoryFilters : directory(cat) /\ UNCHANGED requests
    \/ \E c \in Clients, p \in ProviderIds \ {None}, a \in VerifyActions, ok \in BOOLEAN :
          verify_provider(c, p, a, ok) /\ UNCHANGED requests
    \/ \E c \in Clients, r \in ReportIds, p \in ProviderIds, ok \in BOOLEAN :
          assign_report(c, r, p, ok) /\ UNCHANGED requests
    \/ \E c \in Clients, r \in ReportIds, st \in StatusInputs, ok \in BOOLEAN :
          update_report(c, r, st, ok) /\ UNCHANGED requests
    \/ \E c \in Clients, r \in ReportIds, st \in StatusInputs :
          update_case(c, r, st) /\ UNCHANGED requests
    \/ \E c \in Clients, r \in ReportIds : report_details(c, r) /\ UNCHANGED requests

\* Requests handled one at a time.
Spec == Init /\ [][Next]_all_vars

\* ================================================================ concurrent requests
\* Requests of several clients in flight at once.  A handler is cut where it talks to
\* the store: each query is one step and the commit (the transaction, with the log_event
\* that follows it) is one step; another request's commit may fall between two steps.
\* The requests handled, counted by the rows their transactions committed.
MaxCommits == 3

\* Registrations that collide with one another (username, email) and with a stored user.
ConcurrentForms ==
    { [BaseRegistration EXCEPT !.org_name = "Clinic", !.username = "clinic",
                               !.email = "clinic@test.com"],
      [BaseRegistration EXCEPT !.org_name = "Shelter", !.username = "clinic",
                               !.email = "shelter@test.com"],
      [BaseRegistration EXCEPT !.org_name = "Shelter", !.username = "shelter",
                               !.email = "clinic@test.com"],
      [BaseRegistration EXCEPT !.org_name = "Legal Aid", !.username = "legal",
                               !.email = "new@test.com"] }

\* The store after register_provider(BaseRegistration), the admin's approve of the new
\* organization and one report(BaseReport), the logger having failed each time; the admin
\* is logged in on one client and the provider of 'Test Hospital' on the other.
ConcurrentInit ==
    /\ users = << [username |-> "admin", email |-> "admin@safenet.ng",
                   password_hash |-> generate_password_hash("admin123"),
                   role |-> "admin", organization_id |-> None,
                   is_active |-> TRUE, last_login |-> utcnow],
                  [username |-> "provider", email |-> "provider@test.com",
                   password_hash |-> generate_password_hash("provider123"),
                   role |-> "provider", organization_id |-> 1,
                   is_active |-> TRUE, last_login |-> utcnow],
                  [username |-> "newprov", email |-> "new@test.com",
                   password_hash |-> generate_password_hash("provider123"),
                   role |-> "provider", organization_id |-> 2,
                   is_active |-> TRUE, last_login |-> NoTime] >>
    /\ service_providers = << [name |-> "Test Hospital", category |-> "Medical",
                               is_verified |-> TRUE, verification_date |-> NoTime],
                              [name |-> "New Org", category |-> "NGO",
                               is_verified |-> TRUE, verification_date |-> utcnow] >>
    /\ reports = << [tracking_code |-> "tcA", category |-> "Assault",
                     incident_date |-> "2024-03-01", latitude |-> "", longitude |-> "",
                     status |-> "Pending", assigned_provider_id |-> None,
                     assigned_at |-> NoTime, resolved_at |-> NoTime] >>
    /\ report_attachments = << >>
    /\ report_updates = << >>
    /\ verification_records = << [provider_id |-> 2, verified_by_user_id |-> 1,
                                  verification_status |-> "Approved"] >>
    /\ system_logs = << >>
    /\ session = [c \in ConcurrentClients |-> IF c = "c1" THEN 1 ELSE 2]
    /\ requests = [c \in ConcurrentClients |-> Idle]

Commits == Len(service_providers) - 2 + Len(report_updates)

\* register_provider up to its username query.
register_provider_begin(c, f) ==
    /\ requests[c] = Idle
    /\ \A v \in {f.org_name, f.category, f.address, f.phone, f.email, f.username, f.password} :
          v # ""
    /\ f.password = f.confirm_password
    /\ Len(f.password) >= 8
    /\ ~\E i \in DOMAIN users : users[i].username = f.username
    /\ requests' = [requests EXCEPT ![c] = [Idle EXCEPT !.handler = "register_provider",
                                                        !.step = "email", !.form = f]]
    /\ UNCHANGED vars

\* Its email query.
register_provider_email(c) ==
    /\ requests[c].handler = "register_provider"
    /\ requests[c].step = "email"
    /\ requests' = [requests EXCEPT ![c] =
                       IF \E i \in DOMAIN users : users[i].email = requests[c].form.email
                       THEN Idle
                       ELSE [@ EXCEPT !.step = "commit"]]
    /\ UNCHANGED vars

\* Its transaction: the organization and the user are committed together, or the unique
\* constraints raise and the except branch rolls both back.
register_provider_commit(c, ok) ==
    /\ requests[c].handler = "register_provider"
    /\ requests[c].step = "commit"
    /\ requests' = [requests EXCEPT ![c] = Idle]
    /\ IF users_unique(Append(users, new_user(requests[c].form)))
       THEN /\ Commits < MaxCommits
            /\ service_providers' =
                  Append(service_providers,
                         [name |-> requests[c].form.org_name,
                          category |-> requests[c].form.category,
                          is_verified |-> FALSE, verification_date |-> NoTime])
            /\ users' = Append(users, new_user(requests[c].form))
            /\ system_logs' =
                  log_event("provider_registration", None, current_user_id(c), ok).logs
            /\ UNCHANGED <<reports, report_attachments, report_updates,
                           verification_records, session>>
       ELSE UNCHANGED vars

\* assign_report up to its last early return: the report and the organization are read.
assign_report_load(c, report_id, provider_id) ==
    /\ requests[c] = Idle
    /\ assign_report_checks(c, report_id, provider_id) = Pass
    /\ requests' = [requests EXCEPT ![c] =
                       [Idle EXCEPT !.handler = "assign_report", !.step = "commit",
                                    !.report_id = report_id, !.provider_id = provider_id,
                                    !.seen_status = reports[report_id].status,
                                    !.seen_provider_id =
                                        reports[report_id].assigned_provider_id]]
    /\ UNCHANGED vars

\* Its transaction.  The UPDATE sets the columns whose value differs from the one the
\* request loaded; assigned_at gets a fresh timestamp.
assign_report_commit(c, ok) ==
    LET q == requests[c] IN
    /\ q.handler = "assign_report"
    /\ Commits < MaxCommits
    /\ requests' = [requests EXCEPT ![c] = Idle]
    /\ reports' = [reports EXCEPT
                     ![q.report_id].assigned_provider_id =
                         IF q.provider_id # q.seen_provider_id THEN q.provider_id ELSE @,
                     ![q.report_id].assigned_at = utcnow,
                     ![q.report_id].status =
                         IF q.seen_status # "Assigned" THEN "Assigned" ELSE @]
    /\ report_updates' = add_update(q.report_id, "Assigned", current_user_id(c))
    /\ system_logs' =
          log_event("report_assigned", current_user_id(c), current_user_id(c), ok).logs
    /\ UNCHANGED <<users, service_providers, report_attachments,
                   verification_records, session>>

\* update_report up to its last early return: the report is read and the ownership test
\* and the status validation have passed.
update_report_load(c, report_id, new_status) ==
    /\ requests[c] = Idle
    /\ update_report_checks(c, report_id, new_status) = Pass
    /\ requests' = [requests EXCEPT ![c] =
                       [Idle EXCEPT !.handler = "update_report", !.step = "commit",
                                    !.report_id = report_id, !.status = new_status,
                                    !.seen_status = reports[report_id].status]]
    /\ UNCHANGED vars

\* Its transaction.
update_report_commit(c, ok) ==
    LET q == requests[c] IN
    /\ q.handler = "update_report"
    /\ Commits < MaxCommits
    /\ requests' = [requests EXCEPT ![c] = Idle]
    /\ reports' = [reports EXCEPT
                     ![q.report_id].status = IF q.status # q.seen_status THEN q.status ELSE @,
                     ![q.report_id].resolved_at =
                         IF q.status = "Resolved" THEN utcnow ELSE @]
    /\ report_updates' = add_update(q.report_id, q.status, current_user_id(c))
    /\ system_logs' =
          log_event("report_updated", current_user_id(c), current_user_id(c), ok).logs
    /\ UNCHANGED <<users, service_providers, report_attachments,
                   verification_records, session>>

ConcurrentNext ==
    \/ \E c \in ConcurrentClients, f \in ConcurrentForms : register_provider_begin(c, f)
    \/ \E c \in ConcurrentClients : register_provider_email(c)
    \/ \E c \in ConcurrentClients, ok \in BOOLEAN : register_provider_commit(c, ok)
    \/ \E c \in ConcurrentClients, r \in ReportIds, p \in ProviderIds :
          assign_report_load(c, r, p)
    \/ \E c \in ConcurrentClients, ok \in BOOLEAN : assign_report_commit(c, ok)
    \/ \E c \in ConcurrentClients, r \in ReportIds, st \in StatusInputs :
          update_report_load(c, r, st)
    \/ \E c \in ConcurrentClients, ok \in BOOLEAN : update_report_commit(c, ok)

ConcurrentSpec == ConcurrentInit /\ [][ConcurrentNext]_all_vars

\* ================================================================ claims
Terminal == {"Resolved", "Closed"}

\* The actor of client c is a provider whose organization is the one report r is assigned to.
AssignedProvider(c, r) ==
    /\ is_authenticated(c)
    /\ users[current_user_id(c)].role = "provider"
    /\ r \in DOMAIN reports
    /\ reports[r].assigned_provider_id = users[current_user_id(c)].organization_id

\* C1: a status-update request through update_report or update_case changes a report
\* or the update history only if the actor is a provider whose organization_id is the
\* report's assigned_provider_id.
C1_OnlyAssignedProviderUpdates ==
    [][vars' # vars => \A c \in Clients, r \in ReportIds, st \in StatusInputs, ok \in BOOLEAN :
          /\ reports' # reports \/ report_updates' # report_updates
          /\ update_report(c, r, st, ok) \/ update_case(c, r, st)
          => AssignedProvider(c, r)]_vars

\* C2: every report with an assigned_provider_id references an organization whose
\* is_verified flag is true, and a step of assign_report that sets a report to Assigned
\* names an organization that is verified when the step is taken.
AssignedAreVerified ==
    \A r \in DOMAIN reports :
        reports[r].assigned_provider_id # None
        => /\ reports[r].assigned_provider_id \in DOMAIN service_providers
           /\ service_providers[reports[r].assigned_provider_id].is_verified

C2_AssignedOnlyToVerified ==
    /\ []AssignedAreVerified
    /\ [][vars' # vars => \A c \in Clients, r \in ReportIds, p \in ProviderIds, ok \in BOOLEAN :
             /\ reports' # reports
             /\ r \in DOMAIN reports
             /\ reports'[r].status = "Assigned"
             /\ assign_report(c, r, p, ok)
             => /\ p \in DOMAIN service_providers
                /\ service_providers[p].is_verified
                /\ reports'[r].assigned_provider_id = p]_vars

\* An unverified organization exists and a report is assigned (to a verified one).
C2_Witness ==
    /\ \E p \in DOMAIN service_providers : ~service_providers[p].is_verified
    /\ \E r \in DOMAIN reports :
          reports[r].status = "Assigned" /\ reports[r].assigned_provider_id # None

\* What the specification asks of a successful assignment.
AssignPrecondition(c, r, p) ==
    /\ is_authenticated(c)
    /\ users[current_user_id(c)].role = "admin"
    /\ r \in DOMAIN reports
    /\ p # None
    /\ p \in DOMAIN service_providers
    /\ service_providers[p].is_verified

\* C3: an assign_report request that fails (not an admin, unknown report or organization,
\* no organization given, organization unverified) changes no report and adds no
\* ReportUpdate.
C3_FailedAssignChangesNothing ==
    [][vars' # vars => \A c \in Clients, r \in ReportIds, p \in ProviderIds, ok \in BOOLEAN :
          ~AssignPrecondition(c, r, p) /\ assign_report(c, r, p, ok)
          => UNCHANGED <<reports, report_updates>>]_vars

\* An admin is logged in, a report is Pending and an unverified organization exists:
\* the assignment of the one to the other is refused here.
C3_Witness ==
    \E c \in Clients, r \in DOMAIN reports, p \in DOMAIN service_providers :
        /\ is_authenticated(c)
        /\ users[current_user_id(c)].role = "admin"
        /\ reports[r].status = "Pending"
        /\ ~service_providers[p].is_verified
        /\ assign_report_response(c, r, p, TRUE)
              = Redirect("dashboard", "Cannot assign to unverified provider.")

\* C4: every report's status is one of Pending, Assigned, In Progress, Resolved, Closed.
C4_StatusInEnum ==
    \A r \in DOMAIN reports : reports[r].status \in ReportStatuses

\* C5: a report that left Pending by assignment never has status Pending again.
C5_NeverBackToPending ==
    [][\A r \in DOMAIN reports :
          reports[r].assigned_provider_id # None /\ reports[r].status # "Pending"
          => reports'[r].status # "Pending"]_vars

TrackingCodesDistinct ==
    \A i, j \in DOMAIN reports : i # j => reports[i].tracking_code # reports[j].tracking_code

LookupResolves ==
    /\ \A i \in DOMAIN reports :
          track_report_response(reports[i].tracking_code).report_id = i
    /\ \A code \in TrackingCodes :
          (\A i \in DOMAIN reports : reports[i].tracking_code # code)
          => track_report_response(code) = NotFound

C7_TrackingCodes ==
    /\ [](TrackingCodesDistinct /\ LookupResolves)
    /\ [][vars' # vars =>
          /\ \A i \in DOMAIN reports :
                i \in DOMAIN reports' /\ reports'[i].tracking_code = reports[i].tracking_code
          /\ \A c \in Clients, f \in ReportForms, code \in TrackingCodes, ok \in BOOLEAN :
                /\ \E i \in DOMAIN reports : reports[i].tracking_code = code
                /\ report(c, f, code, ok)
                => UNCHANGED <<reports, report_attachments, system_logs>>]_vars

\* Two reports are stored, the lookup of the second one's code finds it, and a further
\* submission drawing that code again is answered with the error page.
C7_Witness ==
    /\ Len(reports) = 2
    /\ track_report_response(reports[2].tracking_code).report_id = 2
    /\ \A c \in Clients :
          report_response(c, BaseReport, reports[2].tracking_code, TRUE).kind = "render"

\* C8: a successful assign_report, update_report or update_case appends exactly one
\* ReportUpdate, for that report, with the new status and the acting user; and the last
\* ReportUpdate of a report carries the report's current status.
AppendsOneUpdate(c, r) ==
    /\ Len(report_updates') = Len(report_updates) + 1
    /\ SubSeq(report_updates', 1, Len(report_updates)) = report_updates
    /\ report_updates'[Len(report_updates')]
          = [report_id |-> r, status |-> reports'[r].status,
             created_by_user_id |-> current_user_id(c)]

UpdatesOf(r) == {i \in DOMAIN report_updates : report_updates[i].report_id = r}

LatestUpdateIsStatus ==
    \A r \in DOMAIN reports :
        UpdatesOf(r) # {}
        => \E i \in UpdatesOf(r) :
              /\ \A j \in UpdatesOf(r) : j <= i
              /\ report_updates[i].status = reports[r].status

LogsOne(event_type) ==
    /\ Len(system_logs') = Len(system_logs) + 1
    /\ SubSeq(system_logs', 1, Len(system_logs)) = system_logs
    /\ system_logs'[Len(system_logs')].event_type = event_type

\* C9: when the logger works, every audited event (login success and failure, registration,
\* submission, verification, assignment, status update through update_report or update_case)
\* appends exactly one SystemLog entry of its event type.
C9_EveryAuditedEventLogged ==
    [][vars' # vars => \A c \in Clients :
          /\ \A f \in LoginForms :
                /\ login_checks(c, f[1], f[2], "") = Pass
                      /\ admin_login(c, f[1], f[2], TRUE)
                   => LogsOne(IF credentials_ok(f[1], f[2], "admin")
                              THEN "admin_login" ELSE "failed_admin_login")
                /\ login_checks(c, f[1], f[2], "") = Pass
                      /\ provider_login(c, f[1], f[2], TRUE)
                   => LogsOne(IF credentials_ok(f[1], f[2], "provider")
                              THEN "provider_login" ELSE "failed_provider_login")
          /\ \A f \in RegistrationForms :
                register_provider_checks(f) = Pass /\ register_provider(c, f, TRUE)
                => LogsOne("provider_registration")
          /\ \A f \in ReportForms, code \in TrackingCodes :
                report_checks(f, code) = Pass /\ report(c, f, code, TRUE)
                => LogsOne("report_submitted")
          /\ \A p \in ProviderIds, a \in VerifyActions :
                verify_provider_checks(c, p, a) = Pass /\ verify_provider(c, p, a, TRUE)
                => LogsOne("provider_verification")
          /\ \A r \in ReportIds, p \in ProviderIds :
                assign_report_checks(c, r, p) = Pass /\ assign_report(c, r, p, TRUE)
                => LogsOne("report_assigned")
          /\ \A r \in ReportIds, st \in StatusInputs :
                \/ update_report_checks(c, r, st) = Pass /\ update_report(c, r, st, TRUE)
                \/ update_case_checks(c, r, st) = Pass /\ update_case(c, r, st)
                => LogsOne("report_updated")]_vars

IsAdmin(c) == is_authenticated(c) /\ users[current_user_id(c)].role = "admin"

\* C11: an organization is unverified when register_provider creates it; the is_verified
\* flag of a stored organization changes only by a verify_provider request of an admin
\* with action approve, which sets it to true; a verify_provider request of a non-admin,
\* or with action reject or an invalid action, changes no flag.
C11_VerifiedOnlyByAdminApprove ==
    [][vars' # vars =>
          /\ \A p \in DOMAIN service_providers' :
                IF p \in DOMAIN service_providers
                THEN service_providers'[p].is_verified # service_providers[p].is_verified
                     => /\ service_providers'[p].is_verified
                        /\ \E c \in Clients, ok \in BOOLEAN :
                              IsAdmin(c) /\ verify_provider(c, p, "approve", ok)
                ELSE /\ ~service_providers'[p].is_verified
                     /\ \E c \in Clients, f \in RegistrationForms, ok \in BOOLEAN :
                           register_provider(c, f, ok)
          /\ \A c \in Clients, p \in ProviderIds, a \in VerifyActions, ok \in BOOLEAN :
                /\ ~IsAdmin(c) \/ a # "approve"
                /\ verify_provider(c, p, a, ok)
                => \A q \in DOMAIN service_providers :
                      /\ q \in DOMAIN service_providers'
                      /\ service_providers'[q].is_verified
                            = service_providers[q].is_verified]_vars

\* A self-registered organization was rejected (and stayed unverified) and then approved.
C11_Witness ==
    \E p \in DOMAIN service_providers : \E i, j \in DOMAIN verification_records :
        /\ p > 1
        /\ service_providers[p].is_verified
        /\ i < j
        /\ verification_records[i].provider_id = p
        /\ verification_records[i].verification_status = "Rejected"
        /\ verification_records[j].provider_id = p
        /\ verification_records[j].verification_status = "Approved"

\* C12: a verify_provider request of an admin with action approve or reject appends
\* exactly one VerificationRecord, Approved or Rejected, naming the organization and the
\* admin; approve leaves the flag of an already verified organization true; and no step
\* changes or removes a stored VerificationRecord.
C12_OneVerificationRecord ==
    [][vars' # vars =>
          /\ Len(verification_records') >= Len(verification_records)
          /\ SubSeq(verification_records', 1, Len(verification_records)) = verification_records
          /\ \A c \in Clients, p \in DOMAIN service_providers, ok \in BOOLEAN :
                \A a \in {"approve", "reject"} :
                   IsAdmin(c) /\ verify_provider(c, p, a, ok)
                   => /\ Len(verification_records') = Len(verification_records) + 1
                      /\ verification_records'[Len(verification_records')]
                            = [provider_id |-> p,
                               verified_by_user_id |-> current_user_id(c),
                               verification_status |->
                                   IF a = "approve" THEN "Approved" ELSE "Rejected"]
                      /\ a = "approve" => service_providers'[p].is_verified
                      /\ a = "reject" => service_providers'[p].is_verified
                                            = service_providers[p].is_verified]_vars

\* An organization was approved twice: it is verified and holds two Approved records.
C12_Witness ==
    \E i, j \in DOMAIN verification_records :
        /\ i < j
        /\ verification_records[i].provider_id = verification_records[j].provider_id
        /\ verification_records[i].verification_status = "Approved"
        /\ verification_records[j].verification_status = "Approved"
        /\ service_providers[verification_records[i].provider_id].is_verified

\* The actor of client c is a provider and report id r is not a report assigned to the
\* provider's organization.
ProviderWithout(c, r) ==
    /\ is_authenticated(c)
    /\ users[current_user_id(c)].role = "provider"
    /\ r \in DOMAIN reports => ~owns_report(current_user_id(c), r)

\* C13: to a provider, update_report, update_case and report_details answer a request on
\* a stored report that is not assigned to the provider's organization exactly as they
\* answer the same request on a report id that does not exist.
C13_DenialHidesExistence ==
    \A c \in Clients, r \in DOMAIN reports, st \in ValidStatuses, ok \in BOOLEAN :
        ProviderWithout(c, r)
        => LET missing == Len(reports) + 1 IN
           /\ update_report_response(c, r, st, ok) = update_report_response(c, missing, st, ok)
           /\ update_case_response(c, r, st) = update_case_response(c, missing, st)
           /\ report_details_response(c, r) = report_details_response(c, missing)

\* The four required fields are present and the incident date parses.
RequiredAndDate(f) ==
    /\ f.category # "" /\ f.description # "" /\ f.location # "" /\ f.incident_date # ""
    /\ f.incident_date = "2024-03-01"

\* Latitude and longitude, where given, are numbers.
CoordinatesParse(f) == \A v \in {f.latitude, f.longitude} : v \in {"", "9.07", "7.49"}

\* The submission is answered with the redirect to the new report's tracking page.
Accepted(c, f, code, ok) == report_response(c, f, code, ok).kind = "redirect"

\* A step of report that changes the store: the submission was accepted, one Pending,
\* unassigned report is appended, and the attachments added are the new report's.
CreatesPendingReport(c, f, code, ok) ==
    /\ Accepted(c, f, code, ok)
    /\ Len(reports') = Len(reports) + 1
    /\ SubSeq(reports', 1, Len(reports)) = reports
    /\ reports'[Len(reports')].status = "Pending"
    /\ reports'[Len(reports')].assigned_provider_id = None
    /\ reports'[Len(reports')].assigned_at = NoTime
    /\ Len(report_attachments') >= Len(report_attachments)
    /\ \A k \in DOMAIN report_attachments' :
          IF k \in DOMAIN report_attachments
          THEN report_attachments'[k] = report_attachments[k]
          ELSE report_attachments'[k].report_id = Len(reports')

UsersDistinct ==
    \A i, j \in DOMAIN users :
        i # j => users[i].username # users[j].username /\ users[i].email # users[j].email

\* Every organization has exactly one user, and every provider user an organization.
OrganizationsHaveTheirUser ==
    /\ \A p \in DOMAIN service_providers :
          Cardinality({u \in DOMAIN users : users[u].organization_id = p}) = 1
    /\ \A u \in DOMAIN users :
          users[u].role = "provider" => users[u].organization_id \in DOMAIN service_providers

\* The step is the transaction of client c's register_provider request.
RegistrationCommits(c) ==
    /\ requests[c].handler = "register_provider"
    /\ requests[c].step = "commit"
    /\ requests'[c] = Idle

\* C15: under every interleaving of register_provider requests, usernames and emails
\* stay unique, every organization has its one user, and the transaction of a request
\* either appends an unverified organization and the provider user that references it
\* or changes neither table.
C15_RegistrationAllOrNothing ==
    /\ [](UsersDistinct /\ OrganizationsHaveTheirUser)
    /\ [][\A c \in ConcurrentClients :
             RegistrationCommits(c)
             => \/ /\ users' = users
                   /\ service_providers' = service_providers
                \/ /\ Len(users') = Len(users) + 1
                   /\ SubSeq(users', 1, Len(users)) = users
                   /\ Len(service_providers') = Len(service_providers) + 1
                   /\ SubSeq(service_providers', 1, Len(service_providers))
                         = service_providers
                   /\ ~service_providers'[Len(service_providers')].is_verified
                   /\ users'[Len(users')].role = "provider"
                   /\ users'[Len(users')].organization_id = Len(service_providers')
                   /\ users'[Len(users')].username = requests[c].form.username
                   /\ users'[Len(users')].email = requests[c].form.email]_all_vars

\* A request passed both queries and stands before its transaction while another request,
\* handled meanwhile, has stored a user with the same username or email.
C15_Witness ==
    \E c \in ConcurrentClients, i \in DOMAIN users :
        /\ requests[c].handler = "register_provider"
        /\ requests[c].step = "commit"
        /\ i > 3
        /\ \/ users[i].username = requests[c].form.username
           \/ users[i].email = requests[c].form.email

\* C16: for every category filter, the directory lists exactly the organizations that
\* are verified in the state the request finds and, when a filter is given, of that
\* category; no unverified organization is listed, nor its category offered.
C16_DirectoryOnlyVerified ==
    \A cat \in CategoryFilters :
        /\ \A p \in directory_response(cat).providers :
              /\ p \in DOMAIN service_providers
              /\ service_providers[p].is_verified
              /\ cat # "" => service_providers[p].category = cat
        /\ \A p \in DOMAIN service_providers :
              /\ ~service_providers[p].is_verified => p \notin directory_response(cat).providers
              /\ service_providers[p].is_verified /\ cat \in {"", service_providers[p].category}
                 => p \in directory_response(cat).providers
        /\ \A k \in directory_response(cat).categories :
              \E p \in DOMAIN service_providers :
                  service_providers[p].is_verified /\ service_providers[p].category = k

\* An unverified organization is stored beside the verified one: the unfiltered directory
\* lists only the latter and the directory of the former's category is empty.
C16_Witness ==
    \E p \in DOMAIN service_providers :
        /\ ~service_providers[p].is_verified
        /\ directory_response("").providers = {1}
        /\ directory_response(service_providers[p].category).providers = {}
        /\ service_providers[p].category \in CategoryFilters

\* C17: when the transaction of a provider's update_report request commits a status
\* change, the report is assigned, in the state the commit finds, to the provider's own
\* organization, whatever assign_report requests were handled since the request's
\* ownership test.
C17_UpdateCommitsOnOwnReport ==
    [][\A c \in ConcurrentClients :
          /\ requests[c].handler = "update_report"
          /\ requests'[c] = Idle
          /\ reports'[requests[c].report_id].status # reports[requests[c].report_id].status
          => reports[requests[c].report_id].assigned_provider_id
                = users[current_user_id(c)].organization_id]_all_vars

\* C18: a report whose status is not Pending has an assigned organization and an
\* assignment timestamp, and a report with no assigned organization is Pending.
C18_NonPendingIsAssigned ==
    \A r \in DOMAIN reports :
        /\ reports[r].status # "Pending"
           => reports[r].assigned_provider_id # None /\ reports[r].assigned_at # NoTime
        /\ reports[r].assigned_provider_id = None => reports[r].status = "Pending"

\* C19: a report whose status is Resolved has its resolved_at timestamp set, and every
\* step that makes a report Resolved stamps it in that step.
C19_ResolvedIsStamped ==
    /\ [](\A r \in DOMAIN reports :
             reports[r].status = "Resolved" => reports[r].resolved_at # NoTime)
    /\ [][\A r \in DOMAIN reports :
             reports[r].status # "Resolved" /\ reports'[r].status = "Resolved"
             => /\ reports'[r].resolved_at = utcnow
                /\ \E c \in Clients, ok \in BOOLEAN :
                      update_report(c, r, "Resolved", ok) \/ update_case(c, r, "Resolved")]_vars

\* A report was assigned and then resolved by a provider: it is Resolved and stamped.
C19_Witness ==
    \E i, j \in DOMAIN report_updates :
        /\ report_updates[i].status = "Resolved"
        /\ reports[report_updates[i].report_id].status = "Resolved"
        /\ reports[report_updates[i].report_id].resolved_at = utcnow
        /\ users[report_updates[i].created_by_user_id].role = "provider"
        /\ report_updates[j].status = "Assigned"
        /\ report_updates[j].report_id = report_updates[i].report_id
====
